---- MODULE Spec2Model ----
(***************************************************************************)
(* Model of the command-line client: the worker listing command            *)
(* (commands/worker/list.go, CmdList), the disassociate command            *)
(* (SDisassociate.Disassociate) and the actions of the invites             *)
(* subcommands (accept, list, rm, send).                                   *)
(***************************************************************************)
EXTENDS Integers, Sequences, FiniteSets, TLC

VARIABLES
    \* ---- what the remote API holds for the service (inputs of CmdList)
    D,            \* models.Workers.Workers: target -> declared scale
    J,            \* the job records RetrieveByType returns
    workerScale,  \* service.WorkerScale
    \* ---- CmdList's locals and position
    pc,           \* position inside CmdList
    service,      \* result of is.RetrieveByLabel
    workers,      \* result of iw.Retrieve
    jobs,         \* result of ij.RetrieveByType
    workerJobs,   \* map[string]*workerJob
    idx,          \* number of job records the range loop has processed
    calls,        \* dependency calls made by this run, in order
    out,          \* lines / table written through logrus by this run
    ret,          \* value returned by CmdList
    runNo,        \* number of the current invocation of CmdList
    prevOut,      \* output of the previous invocation
    prevRet,      \* return value of the previous invocation
    \* ---- disassociate
    breadcrumbs,  \* settings.Environments: alias -> environment
    dpre,         \* settings.Environments when the last Disassociate began
    dalias,       \* alias of the last Disassociate call
    dout,         \* standard output of the last Disassociate call
    dret,         \* return value of the last Disassociate call
    dhist,        \* aliases of the Disassociate calls made, in order
    \* ---- invites subcommand actions
    icmd,         \* subcommand being run
    iarg,         \* positional argument (INVITE_CODE, INVITE_ID, EMAIL)
    iadmin,       \* -a / --admin option
    imember,      \* -m / --member option
    ipc,          \* position inside the subcommand's Action
    icalls,       \* calls made by the Action, in order
    iexit         \* process exit status

listVars == <<D, J, workerScale, pc, service, workers, jobs, workerJobs, idx,
              calls, out, ret, runNo, prevOut, prevRet>>
disVars == <<breadcrumbs, dpre, dalias, dout, dret, dhist>>
invVars == <<icmd, iarg, iadmin, imember, ipc, icalls, iexit>>
vars == <<listVars, disVars, invVars>>

--------------------------------------------------------------------------
\* Bounds of the model

MaxJobs == 3
MaxRuns == 2
MaxDisassociate == 2

Targets == {"web", "cron"}
Scales == {-1, 0, 2}
Statuses == {"running", "finished"}
WorkerScales == {1, 4}
ErrVals == {"timeout", "http 500"}
svcName == "code-1"

Aliases == {"prod", "stage", "dev"}
Envs == {"env1", "env2"}

Args == {"x1", "x2", "x3"}
envName == "myenv"

None == "none"
NilErr == "nil"

--------------------------------------------------------------------------
\* fmt.Sprintf("%d", n)

DigitStr == <<"0", "1", "2", "3", "4", "5", "6", "7", "8", "9">>

RECURSIVE Digits(_)
Digits(n) ==
    IF n < 10 THEN DigitStr[n + 1]
    ELSE Digits(n \div 10) \o DigitStr[(n % 10) + 1]

FormatInt(n) == IF n < 0 THEN "-" \o Digits(-n) ELSE Digits(n)

--------------------------------------------------------------------------
\* Helpers over the inputs

BoundedSeq(S, n) == UNION {[1..k -> S] : k \in 0..n}

JobRecords == [Target : Targets, Status : Statuses]

Declarations == UNION {[S -> Scales] : S \in SUBSET Targets}

EmptyMap == [t \in {} |-> 0]

\* Orders in which a range over a Go map with the key set S may visit it
IterationOrders(S) ==
    {p \in [1..Cardinality(S) -> S] :
        \A i, j \in 1..Cardinality(S) : i # j => p[i] # p[j]}

--------------------------------------------------------------------------
\* CmdList: pure parts

\* list.go:19
NotFoundErr(name) ==
    "Could not find a service with the label \"" \o name
      \o "\". You can list services with the \"datica services list\" command."

\* Variant of InitSummary that clamps a negative declared scale to 0
InitSummaryClamped(ws) ==
    [t \in DOMAIN ws |->
        [scale |-> IF ws[t] < 0 THEN 0 ELSE ws[t], running |-> 0]]

\* list.go:34-37
InitSummary(ws) ==
    [t \in DOMAIN ws |-> [scale |-> ws[t], running |-> 0]]

\* Variant of NoWorkers whose test never succeeds (len(workerJobs) < 0)
NoWorkersNever(wj) == Cardinality(DOMAIN wj) < 0

\* list.go:38
NoWorkers(wj) == Cardinality(DOMAIN wj) = 0

\* What logrus writes: a printed line, or the rendered table
Line(text) == [kind |-> "line", text |-> text, data |-> <<>>]
Table(data) == [kind |-> "table", text |-> "", data |-> data]

\* Variant of NoWorkersOut that reports the available workers as used
NoWorkersOutAvail(name, avail) ==
    << Line("No running workers found for " \o name),
       Line("\nYou are using " \o FormatInt(avail)
              \o " out of your available " \o FormatInt(avail)
              \o " workers for " \o name) >>

\* list.go:39-40
NoWorkersOut(name, avail) ==
    << Line("No running workers found for " \o name),
       Line("\nYou are using 0 out of your available " \o FormatInt(avail)
              \o " workers for " \o name) >>

\* Variant of ProcessJob that skips the jobs of undeclared targets
ProcessJobDeclaredOnly(wj, j) ==
    IF j.Target \notin DOMAIN wj THEN wj
    ELSE IF j.Status = "running"
         THEN [wj EXCEPT ![j.Target].running = @ + 1]
         ELSE wj

\* Variant of ProcessJob that counts a job whatever its status
ProcessJobAnyStatus(wj, j) ==
    LET wj1 == IF j.Target \in DOMAIN wj THEN wj
               ELSE [t \in DOMAIN wj \cup {j.Target} |->
                        IF t \in DOMAIN wj THEN wj[t]
                        ELSE [scale |-> 0, running |-> 0]]
    IN  [wj1 EXCEPT ![j.Target].running = @ + 1]

\* list.go:44-49, the body of the range loop over the job records
ProcessJob(wj, j) ==
    LET wj1 == IF j.Target \in DOMAIN wj THEN wj
               ELSE [t \in DOMAIN wj \cup {j.Target} |->
                        IF t \in DOMAIN wj THEN wj[t]
                        ELSE [scale |-> 0, running |-> 0]]
    IN  IF j.Status = "running"
        THEN [wj1 EXCEPT ![j.Target].running = @ + 1]
        ELSE wj1

\* list.go:43-50, the whole range loop
RECURSIVE ReconcileJobs(_, _)
ReconcileJobs(wj, js) ==
    IF js = <<>> THEN wj
    ELSE ReconcileJobs(ProcessJob(wj, Head(js)), Tail(js))

\* list.go:52-57, the rows appended while ranging over workerJobs in `order`
RECURSIVE TableData(_, _)
TableData(wj, order) ==
    IF order = <<>> THEN << <<"TARGET", "SCALE", "RUNNING JOBS">> >>
    ELSE LET n == Len(order)
             t == order[n]
         IN  Append(TableData(wj, SubSeq(order, 1, n - 1)),
                    <<t, FormatInt(wj[t].scale), FormatInt(wj[t].running)>>)

\* Variant of TotalScale that adds up the running counts
RECURSIVE TotalRunning(_, _)
TotalRunning(wj, order) ==
    IF order = <<>> THEN 0
    ELSE TotalRunning(wj, Tail(order)) + wj[Head(order)].running

\* list.go:53-55, total accumulated while ranging over workerJobs in `order`
RECURSIVE TotalScale(_, _)
TotalScale(wj, order) ==
    IF order = <<>> THEN 0
    ELSE TotalScale(wj, Tail(order)) + wj[Head(order)].scale

\* list.go:67
UsageLine(total, avail, name) ==
    "\nYou are using " \o FormatInt(total) \o " out of your available "
      \o FormatInt(avail) \o " workers for " \o name

--------------------------------------------------------------------------
\* CmdList: state machine

ListLocalsInit ==
    /\ pc = "resolve"
    /\ service = None
    /\ workers = None
    /\ jobs = None
    /\ workerJobs = EmptyMap
    /\ idx = 0
    /\ calls = <<>>
    /\ out = <<>>
    /\ ret = None

ListInit ==
    /\ D \in Declarations
    /\ J \in BoundedSeq(JobRecords, MaxJobs)
    /\ workerScale \in WorkerScales
    /\ ListLocalsInit
    /\ runNo = 1
    /\ prevOut = <<>>
    /\ prevRet = None

Call(dep, err) == [dep |-> dep, err |-> err]

\* list.go:14-17, is.RetrieveByLabel fails
ResolveServiceErr ==
    /\ pc = "resolve"
    /\ \E e \in ErrVals :
         /\ calls' = Append(calls, Call("RetrieveByLabel", e))
         /\ ret' = e
    /\ pc' = "done"
    /\ UNCHANGED <<D, J, workerScale, service, workers, jobs, workerJobs, idx,
                   out, runNo, prevOut, prevRet>>
    /\ UNCHANGED <<disVars, invVars>>

\* list.go:14-20, is.RetrieveByLabel finds no service
ResolveServiceNil ==
    /\ pc = "resolve"
    /\ calls' = Append(calls, Call("RetrieveByLabel", NilErr))
    /\ ret' = NotFoundErr(svcName)
    /\ pc' = "done"
    /\ UNCHANGED <<D, J, workerScale, service, workers, jobs, workerJobs, idx,
                   out, runNo, prevOut, prevRet>>
    /\ UNCHANGED <<disVars, invVars>>

\* list.go:14-20, is.RetrieveByLabel succeeds
ResolveServiceOk ==
    /\ pc = "resolve"
    /\ calls' = Append(calls, Call("RetrieveByLabel", NilErr))
    /\ service' = [ID |-> "svc-id", WorkerScale |-> workerScale]
    /\ pc' = "workers"
    /\ UNCHANGED <<D, J, workerScale, workers, jobs, workerJobs, idx,
                   out, ret, runNo, prevOut, prevRet>>
    /\ UNCHANGED <<disVars, invVars>>

\* list.go:21-24, iw.Retrieve fails
FetchWorkersErr ==
    /\ pc = "workers"
    /\ \E e \in ErrVals :
         /\ calls' = Append(calls, Call("Retrieve", e))
         /\ ret' = e
    /\ pc' = "done"
    /\ UNCHANGED <<D, J, workerScale, service, workers, jobs, workerJobs, idx,
                   out, runNo, prevOut, prevRet>>
    /\ UNCHANGED <<disVars, invVars>>

\* list.go:21-24, iw.Retrieve succeeds
FetchWorkersOk ==
    /\ pc = "workers"
    /\ calls' = Append(calls, Call("Retrieve", NilErr))
    /\ workers' = D
    /\ pc' = "jobs"
    /\ UNCHANGED <<D, J, workerScale, service, jobs, workerJobs, idx,
                   out, ret, runNo, prevOut, prevRet>>
    /\ UNCHANGED <<disVars, invVars>>

\* Variant of FetchJobsErr that goes on without jobs when the call fails
FetchJobsErrIgnored ==
    /\ pc = "jobs"
    /\ \E e \in ErrVals :
         calls' = Append(calls, Call("RetrieveByType", e))
    /\ jobs' = <<>>
    /\ pc' = "build"
    /\ UNCHANGED <<D, J, workerScale, service, workers, workerJobs, idx,
                   out, ret, runNo, prevOut, prevRet>>
    /\ UNCHANGED <<disVars, invVars>>

\* list.go:26-29, ij.RetrieveByType fails
FetchJobsErr ==
    /\ pc = "jobs"
    /\ \E e \in ErrVals :
         /\ calls' = Append(calls, Call("RetrieveByType", e))
         /\ ret' = e
    /\ pc' = "done"
    /\ UNCHANGED <<D, J, workerScale, service, workers, jobs, workerJobs, idx,
                   out, runNo, prevOut, prevRet>>
    /\ UNCHANGED <<disVars, invVars>>

\* list.go:26-29, ij.RetrieveByType succeeds
FetchJobsOk ==
    /\ pc = "jobs"
    /\ calls' = Append(calls, Call("RetrieveByType", NilErr))
    /\ jobs' = J
    /\ pc' = "build"
    /\ UNCHANGED <<D, J, workerScale, service, workers, workerJobs, idx,
                   out, ret, runNo, prevOut, prevRet>>
    /\ UNCHANGED <<disVars, invVars>>

\* list.go:34-42, the summary is built from the declarations; with no entry
\* the command reports and returns
BuildSummary ==
    /\ pc = "build"
    /\ LET wj == InitSummary(workers)
       IN  /\ workerJobs' = wj
           /\ IF NoWorkers(wj)
              THEN /\ out' = NoWorkersOut(svcName, service.WorkerScale)
                   /\ ret' = NilErr
                   /\ pc' = "done"
              ELSE /\ pc' = "loop"
                   /\ UNCHANGED <<out, ret>>
    /\ UNCHANGED <<D, J, workerScale, service, workers, jobs, idx, calls,
                   runNo, prevOut, prevRet>>
    /\ UNCHANGED <<disVars, invVars>>

\* list.go:43-50, one iteration of the range loop over *jobs
LoopJob ==
    /\ pc = "loop"
    /\ idx < Len(jobs)
    /\ workerJobs' = ProcessJob(workerJobs, jobs[idx + 1])
    /\ idx' = idx + 1
    /\ UNCHANGED <<D, J, workerScale, pc, service, workers, jobs, calls,
                   out, ret, runNo, prevOut, prevRet>>
    /\ UNCHANGED <<disVars, invVars>>

\* list.go:43, the range loop is exhausted
LoopEnd ==
    /\ pc = "loop"
    /\ idx = Len(jobs)
    /\ pc' = "render"
    /\ UNCHANGED <<D, J, workerScale, service, workers, jobs, workerJobs, idx,
                   calls, out, ret, runNo, prevOut, prevRet>>
    /\ UNCHANGED <<disVars, invVars>>

\* list.go:52-68, the table and the usage line; the range over the map
\* workerJobs visits its keys in an order the runtime chooses
Render ==
    /\ pc = "render"
    /\ \E order \in IterationOrders(DOMAIN workerJobs) :
         out' = << Table(TableData(workerJobs, order)),
                   Line(UsageLine(TotalScale(workerJobs, order),
                                  service.WorkerScale, svcName)) >>
    /\ ret' = NilErr
    /\ pc' = "done"
    /\ UNCHANGED <<D, J, workerScale, service, workers, jobs, workerJobs, idx,
                   calls, runNo, prevOut, prevRet>>
    /\ UNCHANGED <<disVars, invVars>>

\* CmdList is invoked again on the same service
Reinvoke ==
    /\ pc = "done"
    /\ runNo < MaxRuns
    /\ runNo' = runNo + 1
    /\ prevOut' = out
    /\ prevRet' = ret
    /\ pc' = "resolve"
    /\ service' = None
    /\ workers' = None
    /\ jobs' = None
    /\ workerJobs' = EmptyMap
    /\ idx' = 0
    /\ calls' = <<>>
    /\ out' = <<>>
    /\ ret' = None
    /\ UNCHANGED <<D, J, workerScale>>
    /\ UNCHANGED <<disVars, invVars>>

Next ==
    \/ ResolveServiceErr
    \/ ResolveServiceNil
    \/ ResolveServiceOk
    \/ FetchWorkersErr
    \/ FetchWorkersOk
    \/ FetchJobsErr
    \/ FetchJobsOk
    \/ BuildSummary
    \/ LoopJob
    \/ LoopEnd
    \/ Render
    \/ Reinvoke

--------------------------------------------------------------------------
\* disassociate

\* config.DeleteBreadcrumb: removes the environment of `alias` from
\* settings.Environments
DeleteBreadcrumb(alias, envs) ==
    [a \in DOMAIN envs \ {alias} |-> envs[a]]

BreadcrumbTables == UNION {[S -> Envs] : S \in SUBSET Aliases}

DisInit ==
    /\ breadcrumbs \in BreadcrumbTables
    /\ dpre = EmptyMap
    /\ dalias = None
    /\ dout = <<>>
    /\ dret = None
    /\ dhist = <<>>

\* Variant of Disassociate that warns only when the alias had a breadcrumb
DisassociateWarnIfPresent(alias) ==
    /\ breadcrumbs' = DeleteBreadcrumb(alias, breadcrumbs)
    /\ dout' = IF alias \in DOMAIN breadcrumbs
               THEN << "WARNING: Your existing git remote *has not* been removed.\n\n",
                       "Association cleared.\n" >>
               ELSE << "Association cleared.\n" >>
    /\ dret' = NilErr

\* list.go:97-106, SDisassociate.Disassociate
Disassociate(alias) ==
    /\ breadcrumbs' = DeleteBreadcrumb(alias, breadcrumbs)
    /\ dout' = << "WARNING: Your existing git remote *has not* been removed.\n\n",
                  "Association cleared.\n" >>
    /\ dret' = NilErr

\* list.go:93-95, CmdDisassociate, called once per run of the disassociate command
CmdDisassociate(alias) ==
    /\ Len(dhist) < MaxDisassociate
    /\ Disassociate(alias)
    /\ dpre' = breadcrumbs
    /\ dalias' = alias
    /\ dhist' = Append(dhist, alias)
    /\ UNCHANGED <<listVars, invVars>>

NextDisassociate == \E alias \in Aliases : CmdDisassociate(alias)

--------------------------------------------------------------------------
\* invites subcommands

SubCmds == {"accept", "list", "rm", "send"}

InvInit ==
    /\ icmd \in SubCmds
    /\ iarg \in (IF icmd = "list" THEN {None} ELSE Args)
    /\ iadmin \in (IF icmd = "send" THEN BOOLEAN ELSE {FALSE})
    /\ imember \in (IF icmd = "send" /\ ~iadmin THEN BOOLEAN ELSE {TRUE})
    /\ ipc = "signin"
    /\ icalls = <<>>
    /\ iexit = None

\* One call made by an Action: on an error logrus.Fatal ends the process with
\* status 1, otherwise the Action goes on to `next`
InvCall(fn, args, next) ==
    /\ \E r \in {NilErr} \cup ErrVals :
         /\ icalls' = Append(icalls, [fn |-> fn, args |-> args, err |-> r])
         /\ IF r = NilErr
            THEN /\ ipc' = next
                 /\ iexit' = IF next = "returned" THEN 0 ELSE iexit
            ELSE /\ ipc' = "fatal"
                 /\ iexit' = 1
    /\ UNCHANGED <<icmd, iarg, iadmin, imember>>
    /\ UNCHANGED <<listVars, disVars>>

\* part_000:42-46
AcceptSignin ==
    /\ icmd = "accept" /\ ipc = "signin"
    /\ InvCall("Signin", <<>>, "cmd")

\* part_000:48-51
AcceptCmd ==
    /\ icmd = "accept" /\ ipc = "cmd"
    /\ InvCall("CmdAccept", <<iarg>>, "returned")

\* part_000:69-71
ListSignin ==
    /\ icmd = "list" /\ ipc = "signin"
    /\ InvCall("Signin", <<>>, "assoc")

\* part_000:72-74
ListCheckAssociation ==
    /\ icmd = "list" /\ ipc = "assoc"
    /\ InvCall("CheckRequiredAssociation", <<TRUE, TRUE>>, "cmd")

\* part_000:75-78
ListCmd ==
    /\ icmd = "list" /\ ipc = "cmd"
    /\ InvCall("CmdList", <<envName>>, "returned")

\* part_000:97-99
RmSignin ==
    /\ icmd = "rm" /\ ipc = "signin"
    /\ InvCall("Signin", <<>>, "assoc")

\* part_000:100-102
RmCheckAssociation ==
    /\ icmd = "rm" /\ ipc = "assoc"
    /\ InvCall("CheckRequiredAssociation", <<TRUE, TRUE>>, "cmd")

\* part_000:103-106
RmCmd ==
    /\ icmd = "rm" /\ ipc = "cmd"
    /\ InvCall("CmdRm", <<iarg>>, "returned")

\* part_000:128-130
SendSignin ==
    /\ icmd = "send" /\ ipc = "signin"
    /\ InvCall("Signin", <<>>, "assoc")

\* part_000:131-133
SendCheckAssociation ==
    /\ icmd = "send" /\ ipc = "assoc"
    /\ InvCall("CheckRequiredAssociation", <<TRUE, TRUE>>, "cmd")

\* Variant of SendRole that ignores the admin option
SendRoleMember(adminRole) == "member"

\* part_000:134-137
SendRole(adminRole) == IF adminRole THEN "admin" ELSE "member"

\* part_000:138-141
SendCmd ==
    /\ icmd = "send" /\ ipc = "cmd"
    /\ InvCall("CmdSend", <<iarg, SendRole(iadmin), envName>>, "returned")

NextInvites ==
    \/ AcceptSignin
    \/ AcceptCmd
    \/ ListSignin
    \/ ListCheckAssociation
    \/ ListCmd
    \/ RmSignin
    \/ RmCheckAssociation
    \/ RmCmd
    \/ SendSignin
    \/ SendCheckAssociation
    \/ SendCmd

--------------------------------------------------------------------------
\* Specifications: one per command

\* worker list
Init == ListInit /\ DisInit /\ breadcrumbs = EmptyMap
                 /\ InvInit /\ icmd = "list"
Spec == Init /\ [][Next]_vars

\* disassociate
InitDisassociate ==
    /\ DisInit
    /\ D = EmptyMap /\ J = <<>> /\ workerScale = 1
    /\ ListLocalsInit /\ runNo = 1 /\ prevOut = <<>> /\ prevRet = None
    /\ InvInit /\ icmd = "list"
SpecDisassociate == InitDisassociate /\ [][NextDisassociate]_vars

\* invites
InitInvites ==
    /\ InvInit
    /\ D = EmptyMap /\ J = <<>> /\ workerScale = 1
    /\ ListLocalsInit /\ runNo = 1 /\ prevOut = <<>> /\ prevRet = None
    /\ DisInit /\ breadcrumbs = EmptyMap
SpecInvites == InitInvites /\ [][NextInvites]_vars

--------------------------------------------------------------------------
\* Properties of CmdList (checked under Spec)

\* Targets named by the declarations or by a job record
JobTargets == {J[i].Target : i \in 1..Len(J)}
AllTargets == DOMAIN D \cup JobTargets

\* Number of job records of target t among the first n whose status is
\* exactly "running"
RunningAmong(t, n) ==
    Cardinality({i \in 1..n : J[i].Target = t /\ J[i].Status = "running"})

\* Sum of the declared scales, independent of any iteration order
RECURSIVE SumDeclared(_)
SumDeclared(S) ==
    IF S = {} THEN 0
    ELSE LET t == CHOOSE x \in S : TRUE
         IN  D[t] + SumDeclared(S \ {t})

RECURSIVE SumScaleOf(_, _)
SumScaleOf(wj, S) ==
    IF S = {} THEN 0
    ELSE LET t == CHOOSE x \in S : TRUE
         IN  wj[t].scale + SumScaleOf(wj, S \ {t})

ListedOk == pc = "done" /\ ret = NilErr

\* Rows of the table this run rendered (the header row left out)
RenderedRows ==
    IF out # <<>> /\ out[1].kind = "table" THEN Tail(out[1].data) ELSE <<>>

RowsCover(S) ==
    /\ Len(RenderedRows) = Cardinality(S)
    /\ {RenderedRows[i][1] : i \in 1..Len(RenderedRows)} = S

RowOf(t) ==
    RenderedRows[CHOOSE i \in 1..Len(RenderedRows) : RenderedRows[i][1] = t]

AllCallsSucceeded ==
    /\ Len(calls) = 3
    /\ \A i \in 1..3 : calls[i].err = NilErr

\* C1 as stated: for every D and J, a successful CmdList renders exactly one
\* row per target of keys(D) united with the job targets, and no other row.
C1_RowsAreUnion ==
    ListedOk => (DOMAIN workerJobs = AllTargets /\ RowsCover(AllTargets))

\* C1 amended: for every non-empty D and every J, a successful CmdList
\* builds and renders exactly one row per target of keys(D) united with the
\* job targets, and no other row.
C1_RowsAreUnionWhenDeclared ==
    (ListedOk /\ DOMAIN D # {}) =>
        (DOMAIN workerJobs = AllTargets /\ RowsCover(AllTargets))

C1_Witness ==
    /\ ListedOk
    /\ DOMAIN D # {}
    /\ JobTargets \ DOMAIN D # {}
    /\ DOMAIN D \ JobTargets # {}
    /\ Len(RenderedRows) = 2

\* C2: the running count of every target of the summary is the number of job
\* records of that target whose status is exactly "running" (counted over the
\* records processed so far, over all of J at the end); the rendered row
\* shows it; a target without a job has running count 0.
C2_RunningCounts ==
    /\ pc \in {"loop", "render", "done"} =>
         \A t \in DOMAIN workerJobs :
            workerJobs[t].running = RunningAmong(t, idx)
    /\ (ListedOk /\ DOMAIN workerJobs # {}) =>
         /\ idx = Len(J)
         /\ \A t \in DOMAIN workerJobs :
              /\ RowOf(t)[3] = FormatInt(RunningAmong(t, Len(J)))
              /\ t \notin JobTargets => workerJobs[t].running = 0

C2_Witness ==
    /\ ListedOk
    /\ \E t \in DOMAIN workerJobs :
         /\ workerJobs[t].running = 2
         /\ \E i \in 1..Len(J) : J[i].Target = t /\ J[i].Status # "running"
    /\ \E t \in DOMAIN D : t \notin JobTargets /\ RowOf(t)[3] = "0"

\* C3: the scale of every declared target is its declared value unmodified
\* (negative values included), the scale of a target known only from job
\* records is 0, and processing job records changes no scale.
C3_Scales ==
    /\ pc \in {"loop", "render", "done"} =>
         /\ pc # "done" \/ ret = NilErr => DOMAIN D \subseteq DOMAIN workerJobs
         /\ \A t \in DOMAIN workerJobs :
              workerJobs[t].scale = IF t \in DOMAIN D THEN D[t] ELSE 0
    /\ (ListedOk /\ DOMAIN workerJobs # {}) =>
         \A t \in DOMAIN workerJobs :
            RowOf(t)[2] = FormatInt(IF t \in DOMAIN D THEN D[t] ELSE 0)

C3_Witness ==
    /\ ListedOk
    /\ \E t \in DOMAIN D :
         /\ D[t] = -1
         /\ RowOf(t)[2] = "-1"
         /\ workerJobs[t].running > 0
    /\ \E t \in DOMAIN workerJobs : t \notin DOMAIN D /\ RowOf(t)[2] = "0"

\* C4: the total of the usage line is the sum of the scale fields of the
\* summary entries, which is the sum of the declared scales of D, whatever J.
C4_Total ==
    ListedOk =>
        /\ Len(out) = 2
        /\ out[2] = Line(UsageLine(SumDeclared(DOMAIN D), workerScale, svcName))
        /\ SumScaleOf(workerJobs, DOMAIN workerJobs) = SumDeclared(DOMAIN D)

C4_Witness ==
    /\ ListedOk
    /\ SumDeclared(DOMAIN D) = -1
    /\ JobTargets \ DOMAIN D # {}
    /\ \E t \in DOMAIN workerJobs : workerJobs[t].running = 2

\* C5: with empty declarations and all three dependency calls successful,
\* CmdList reports that no workers were found and a usage of 0 out of the
\* service's WorkerScale, processes no job record, renders no table and
\* returns nil, for every J.
C5_NoWorkersPath ==
    (DOMAIN D = {} /\ AllCallsSucceeded /\ pc # "build") =>
        /\ pc = "done"
        /\ ret = NilErr
        /\ out = << Line("No running workers found for " \o svcName),
                    Line(UsageLine(0, workerScale, svcName)) >>
        /\ idx = 0
        /\ workerJobs = EmptyMap

C5_Witness ==
    /\ DOMAIN D = {}
    /\ AllCallsSucceeded
    /\ pc = "done"
    /\ Len(out) = 2
    /\ \E i \in 1..Len(J) : J[i].Status = "running"

\* The summary and total the reconciliation steps yield on (D, J)
Reconciled == ReconcileJobs(InitSummary(D), J)
ReconciledTotal ==
    TotalScale(Reconciled,
               CHOOSE o \in IterationOrders(DOMAIN Reconciled) : TRUE)

\* C6 as stated: for empty D and every J the early return surfaces the same
\* targets, with the same scale and running count, and the same total as the
\* reconciliation steps on (D, J).
C6_BranchesEquivalent ==
    (ListedOk /\ DOMAIN D = {}) =>
        /\ workerJobs = Reconciled
        /\ out[2] = Line(UsageLine(ReconciledTotal, workerScale, svcName))

\* C6 amended: for empty D the early return reports the same total as the
\* reconciliation steps on (D, J) for every J, and surfaces the same targets
\* exactly when J is empty: it surfaces none, while the reconciliation steps
\* surface every job target with scale 0 and its running count.
C6_EarlyReturnVsReconcile ==
    (ListedOk /\ DOMAIN D = {}) =>
        /\ out[2] = Line(UsageLine(ReconciledTotal, workerScale, svcName))
        /\ DOMAIN workerJobs = {}
        /\ RenderedRows = <<>>
        /\ DOMAIN Reconciled = JobTargets
        /\ \A t \in JobTargets :
              /\ Reconciled[t].scale = 0
              /\ Reconciled[t].running = RunningAmong(t, Len(J))
        /\ (workerJobs = Reconciled) <=> (J = <<>>)

C6_Witness ==
    /\ ListedOk
    /\ DOMAIN D = {}
    /\ \E t \in DOMAIN Reconciled : Reconciled[t].running > 0

\* C7: two runs of CmdList on identical (D, J) render the rows in the
\* identical order.
C7_RowOrderFixed ==
    (runNo > 1 /\ ListedOk /\ prevRet = NilErr) => out = prevOut

\* C8: the dependencies are called in the order RetrieveByLabel, Retrieve,
\* RetrieveByType, each at most once, all before the summary is built; a
\* failing call (or a label resolving to no service) is the last call, its
\* error is returned unchanged, and nothing is rendered.
DepOrder == <<"RetrieveByLabel", "Retrieve", "RetrieveByType">>

C8_CallOrderAndErrors ==
    /\ Len(calls) <= 3
    /\ \A i \in 1..Len(calls) : calls[i].dep = DepOrder[i]
    /\ \A i \in 1..Len(calls) :
          calls[i].err # NilErr =>
              /\ i = Len(calls)
              /\ pc = "done"
              /\ ret = calls[i].err
    /\ pc \in {"build", "loop", "render"} => AllCallsSucceeded
    /\ (out # <<>> \/ DOMAIN workerJobs # {} \/ idx > 0) =>
          (AllCallsSucceeded /\ (pc = "done" => ret = NilErr))
    /\ (pc = "done" /\ ret # NilErr) =>
          /\ out = <<>>
          /\ workerJobs = EmptyMap
          /\ \/ ret \in ErrVals /\ calls[Len(calls)].err = ret
             \/ /\ ret = NotFoundErr(svcName)
                /\ calls = << Call("RetrieveByLabel", NilErr) >>
    /\ pc = "done" <=> ret # None

C8_Witness ==
    /\ pc = "done"
    /\ Len(calls) = 3
    /\ calls[3].err = "timeout"
    /\ ret = "timeout"
    /\ DOMAIN D # {}
    /\ J # <<>>

--------------------------------------------------------------------------
\* Properties of Disassociate (checked under SpecDisassociate)

\* C9: Disassociate(alias) returns nil and prints the warning about the git
\* remote whether or not the alias has a breadcrumb; it removes the
\* breadcrumb of that alias and no other; on a missing alias, and on a second
\* call with the same alias, the breadcrumb table is left as it was.
C9_DisassociateIdempotent ==
    dhist # <<>> =>
        /\ dret = NilErr
        /\ Len(dout) = 2
        /\ dout[1] = "WARNING: Your existing git remote *has not* been removed.\n\n"
        /\ dalias = dhist[Len(dhist)]
        /\ dalias \notin DOMAIN breadcrumbs
        /\ DOMAIN breadcrumbs = DOMAIN dpre \ {dalias}
        /\ \A a \in DOMAIN breadcrumbs : breadcrumbs[a] = dpre[a]
        /\ dalias \notin DOMAIN dpre => breadcrumbs = dpre
        /\ (Len(dhist) > 1 /\ dhist[Len(dhist) - 1] = dalias) =>
              breadcrumbs = dpre

C9_Witness ==
    /\ Len(dhist) = 2
    /\ dhist[1] = dhist[2]
    /\ dalias \notin DOMAIN dpre
    /\ dret = NilErr
    /\ Cardinality(DOMAIN breadcrumbs) = 2

--------------------------------------------------------------------------
\* Properties of the invites subcommands (checked under SpecInvites)

CallNames == [i \in 1..Len(icalls) |-> icalls[i].fn]

CmdFn(c) ==
    CASE c = "accept" -> "CmdAccept"
      [] c = "list" -> "CmdList"
      [] c = "rm" -> "CmdRm"
      [] c = "send" -> "CmdSend"

IsPrefix(p, q) == Len(p) <= Len(q) /\ p = SubSeq(q, 1, Len(p))

FailFast ==
    /\ \A i \in 1..Len(icalls) :
          icalls[i].err # NilErr => (i = Len(icalls) /\ ipc = "fatal")
    /\ ipc = "fatal" =>
          /\ iexit = 1
          /\ icalls # <<>>
          /\ icalls[Len(icalls)].err # NilErr
    /\ ipc = "returned" => iexit = 0

SendRoleOk ==
    \A i \in 1..Len(icalls) :
        icalls[i].fn = "CmdSend" =>
            /\ (icalls[i].args[2] = "admin") <=> iadmin
            /\ (icalls[i].args[2] = "member") <=> ~iadmin

\* C10 as stated: every subcommand (accept, list, rm, send) calls Signin,
\* then the association check, then exactly one command call.
C10_SameSequence ==
    /\ IsPrefix(CallNames,
                <<"Signin", "CheckRequiredAssociation", CmdFn(icmd)>>)
    /\ ipc = "returned" => Len(icalls) = 3

\* C10 amended: list, rm and send call Signin, then the association check,
\* then exactly one command call (send with role "admin" iff the admin flag
\* is set, otherwise "member"); accept calls Signin and then its one command
\* call, without an association check; a failing call ends the process with
\* status 1 before any later call is made.
ExpectedCalls(c) ==
    IF c = "accept" THEN <<"Signin", CmdFn(c)>>
    ELSE <<"Signin", "CheckRequiredAssociation", CmdFn(c)>>

C10_Sequences ==
    /\ IsPrefix(CallNames, ExpectedCalls(icmd))
    /\ ipc = "returned" => CallNames = ExpectedCalls(icmd)
    /\ FailFast
    /\ SendRoleOk

C10_Witness ==
    /\ icmd = "send"
    /\ iadmin
    /\ ipc = "returned"
    /\ icalls[3].args[2] = "admin"

====
